---------------------------- MODULE Spec2Model ----------------------------
(***************************************************************************)
(* Model of src/src/exercise/06.js: the useToggle hook (control props).    *)
(*                                                                         *)
(* One controller instance is followed through its lifetime.  An           *)
(* "evaluation" is one call of useToggle by React (a render) together with *)
(* the commit of that render, i.e. the run of the passive effects whose    *)
(* dependencies changed.  Between two evaluations the handlers returned by *)
(* the latest evaluation (toggle, reset) may be called; they are closures  *)
(* over the values of that evaluation (state, on, onIsControlled,          *)
(* onChange, initialState).  React.useReducer's dispatch only enqueues the *)
(* action; the queue is reduced at the next evaluation.                    *)
(***************************************************************************)
EXTENDS Integers, Sequences, FiniteSets, TLC

(***************************************************************************)
(* Bounds of the model (not program constants).                            *)
(***************************************************************************)
MaxRenders == 2
MaxCalls == 2
MaxReduceSteps == 3

(***************************************************************************)
(* JavaScript values that reach the hook.                                  *)
(***************************************************************************)
Undefined == [t |-> "undefined"]
Null == [t |-> "null"]
Bool(b) == [t |-> "boolean", v |-> b]
Fn(i) == [t |-> "function", id |-> i]

\* JS truthiness, as used by `onChange && ...` (line 118) and `!onChange` (line 15)
Truthy(x) ==
  CASE x.t = "function" -> TRUE
    [] x.t = "boolean" -> x.v
    [] OTHER -> FALSE

\* the values a caller may pass for the props of useToggle (lines 56-64)
InitialOnValues == {Undefined, Bool(TRUE)}
ControlledOnValues == {Undefined, Null, Bool(FALSE), Bool(TRUE)}
OnChangeValues == {Undefined, Fn(1)}
PropsValues ==
  [initialOn : InitialOnValues, on : ControlledOnValues, onChange : OnChangeValues]

\* const isDevMode = process.env.NODE_ENV !== 'production' (line 8)
NodeEnvValues == {"development", "production"}

(***************************************************************************)
(* actionTypes (lines 37-40) and toggleReducer (lines 42-54).  A call of   *)
(* the reducer either returns a state or throws.                           *)
(***************************************************************************)
actionTypes == [toggle |-> "toggle", reset |-> "reset"]

Return(s) == [threw |-> FALSE, value |-> s]
Throw(msg) == [threw |-> TRUE, error |-> msg]

\* toggleReducer with a toggle that sets instead of flipping
toggleReducerSetsOn(st, action) ==
  CASE action.type = actionTypes.toggle -> Return([on |-> TRUE])
    [] action.type = actionTypes.reset -> Return(action.initialState)
    [] OTHER -> Throw("Unsupported type: " \o action.type)

\* toggleReducer with a reset that keeps the current state
toggleReducerResetKeeps(st, action) ==
  CASE action.type = actionTypes.toggle -> Return([on |-> ~st.on])
    [] action.type = actionTypes.reset -> Return(st)
    [] OTHER -> Throw("Unsupported type: " \o action.type)

\* toggleReducer with a default case that returns the state
toggleReducerIgnoresUnknown(st, action) ==
  CASE action.type = actionTypes.toggle -> Return([on |-> ~st.on])
    [] action.type = actionTypes.reset -> Return(action.initialState)
    [] OTHER -> Return(st)

toggleReducer(st, action) ==
  CASE action.type = actionTypes.toggle -> Return([on |-> ~st.on])
    [] action.type = actionTypes.reset -> Return(action.initialState)
    [] OTHER -> Throw("Unsupported type: " \o action.type)

\* reducer = toggleReducer is the default of the `reducer` option (line 58)
reducer(st, action) == toggleReducer(st, action)

(***************************************************************************)
(* warning(condition, message) of the `warning` package: the message is    *)
(* written to the sink when the condition is false.                        *)
(***************************************************************************)
MissingHandlerMsg ==
  "Failed prop type: You provided a on prop to a useToggle field without an onChange handler."
ControlledToUncontrolledMsg ==
  "useToggle is changing a controlled input (on) to be uncontrolled."
UncontrolledToControlledMsg ==
  "useToggle is changing an uncontrolled input (on) to be controlled."

warning(condition, message) == IF condition THEN <<>> ELSE <<message>>

(***************************************************************************)
(* State.                                                                  *)
(***************************************************************************)
VARIABLES
  isDevMode,       \* line 8
  props,           \* the options object of the latest evaluation (lines 56-64)
  initialState,    \* useRef({on: initialOn}).current (line 65)
  state,           \* state returned by useReducer at the latest evaluation (line 66)
  queue,           \* actions dispatched and not yet reduced (line 116)
  wasControlled,   \* useRef(isControlled).current of useControlledSwitchWarning (line 23)
  onIsControlled,  \* line 86, value of the latest evaluation
  on,              \* line 90, value of the latest evaluation
  warnings,        \* the warning sink: messages written so far
  thrown,          \* message of the error thrown out of the hook, "" when none
  callLog,         \* one record per call of dispatchWithOnChange, with its effects in order
  renders,         \* number of re-evaluations since construction
  everControlled,  \* some evaluation so far had `on` present
  everUncontrolled,\* some evaluation so far had `on` absent
  everOnChange,    \* some evaluation so far had an onChange handler
  rstate,          \* state of a bare toggleReducer store (reducer taken alone)
  rlog,            \* the reductions of that store: input state, action, result
  app,             \* the App harness: its useState values and its Toggles (lines 150-227)
  twin,            \* a second controller given the same inputs: its state while the other runs
  lastClick,       \* the latest call of an onClick built by a prop getter (lines 126-139)
  got              \* the latest call of a prop getter with its argument and result

vars == <<isDevMode, props, initialState, state, queue, wasControlled,
          onIsControlled, on, warnings, thrown, callLog, renders,
          everControlled, everUncontrolled, everOnChange, rstate, rlog,
          app, twin, lastClick, got>>

hookVars == <<isDevMode, props, initialState, state, queue, wasControlled,
              onIsControlled, on, warnings, thrown, callLog, renders,
              everControlled, everUncontrolled, everOnChange>>


(***************************************************************************)
(* Mode and effective value (lines 11, 22, 86, 90).                        *)
(***************************************************************************)
\* a truthiness test in place of `!= null`
IsControlledValueTruthy(propValue) == Truthy(propValue)

\* `propValue != null`: false exactly for null and undefined
IsControlledValue(propValue) == propValue.t \notin {"undefined", "null"}

\* `onIsControlled ? controlledOn : state.on`
EffectiveOn(controlledOn, st) ==
  IF IsControlledValue(controlledOn) THEN controlledOn.v ELSE st.on

\* `initialOn = false` default of the destructured option (line 57)
DefaultInitialOn(initialOn) == IF initialOn = Undefined THEN FALSE ELSE initialOn.v

(***************************************************************************)
(* The two consistency checks.  Each is a useEffect: it runs after the     *)
(* first evaluation and after every evaluation in which one of its         *)
(* dependencies differs from the previous evaluation.  propName and        *)
(* componentName are the literals 'on' and 'useToggle' and never change.   *)
(***************************************************************************)
\* useOnChangeWarning whose effect has no dependency list
useOnChangeWarningEveryTime(mount, prev, cur) ==
  warning(~(IsControlledValue(cur.on) /\ ~Truthy(cur.onChange)), MissingHandlerMsg)

\* useOnChangeWarning with the prop value itself among the dependencies
useOnChangeWarningValueDep(mount, prev, cur) ==
  IF mount \/ prev.on # cur.on \/ prev.onChange # cur.onChange
    THEN warning(~(IsControlledValue(cur.on) /\ ~Truthy(cur.onChange)), MissingHandlerMsg)
    ELSE <<>>

\* lines 10-19; deps [isControlled, onChange, propName, componentName]
useOnChangeWarning(mount, prev, cur) ==
  LET isControlled == IsControlledValue(cur.on)
      depsChanged == \/ mount
                     \/ IsControlledValue(prev.on) # isControlled
                     \/ prev.onChange # cur.onChange
  IN  IF depsChanged
        THEN warning(~(isControlled /\ ~Truthy(cur.onChange)), MissingHandlerMsg)
        ELSE <<>>

\* useControlledSwitchWarning whose effect has no dependency list
useControlledSwitchWarningEveryTime(mount, prev, cur, wasC) ==
  warning(~(wasC /\ ~IsControlledValue(cur.on)), ControlledToUncontrolledMsg)
  \o warning(~(~wasC /\ IsControlledValue(cur.on)), UncontrolledToControlledMsg)

\* lines 21-33; deps [isControlled, wasControlled, propName, componentName]
useControlledSwitchWarning(mount, prev, cur, wasC) ==
  LET isControlled == IsControlledValue(cur.on)
      depsChanged == mount \/ IsControlledValue(prev.on) # isControlled
  IN  IF depsChanged
        THEN warning(~(wasC /\ ~isControlled), ControlledToUncontrolledMsg)
             \o warning(~(~wasC /\ isControlled), UncontrolledToControlledMsg)
        ELSE <<>>

\* the checks called whatever the mode
ConsistencyChecksInProduction(dev, mount, prev, cur, wasC) ==
  useOnChangeWarning(mount, prev, cur)
  \o useControlledSwitchWarning(mount, prev, cur, wasC)

\* lines 68-82: the checks are called only in development mode
ConsistencyChecks(dev, mount, prev, cur, wasC) ==
  IF dev
    THEN useOnChangeWarning(mount, prev, cur)
         \o useControlledSwitchWarning(mount, prev, cur, wasC)
    ELSE <<>>


(***************************************************************************)
(* React.useRef (lines 12, 23, 65): the argument initialises the ref at    *)
(* the first evaluation and is ignored afterwards.                         *)
(***************************************************************************)
\* a plain value in place of the ref: taken anew at every evaluation
useRefReinitialised(current, initialValue) == initialValue

useRef(current, initialValue) == current

(***************************************************************************)
(* React.useReducer (line 66): the dispatched actions are reduced, in      *)
(* order, when the hook is next evaluated.                                 *)
(***************************************************************************)
RECURSIVE ReduceQueue(_, _)
ReduceQueue(st, q) ==
  IF q = <<>>
    THEN Return(st)
    ELSE LET r == reducer(st, Head(q))
         IN  IF r.threw THEN r ELSE ReduceQueue(r.value, Tail(q))

(***************************************************************************)
(* The App harness (lines 150-227): four useState values and six Toggles.  *)
(* Toggles 1 and 2 are given on={bothOn} and handleToggleChange, Toggle 3  *)
(* an onChange that only logs, Toggle 4 on={bothOn} alone, Toggles 5 and 6 *)
(* the initially controlled and initially uncontrolled ones.  Each Toggle  *)
(* calls useToggle({on, onChange}), so its reducer state starts {on:false}.*)
(***************************************************************************)
ClickLimit == 4

ToggleIds == 1..6
HandleToggleChange == [t |-> "function", name |-> "handleToggleChange"]
ConsoleInfo == [t |-> "function", name |-> "console.info"]

\* the useState initial values (lines 157-160) and the Toggles' first states
AppInitial ==
  [bothOn |-> FALSE,
   testInitiallyControlled |-> Bool(TRUE),
   testInitiallyUncontrolled |-> Null,
   timesClicked |-> 0,
   toggles |-> [i \in ToggleIds |-> [on |-> FALSE]],
   lastEvent |-> "mount",
   returnedEarly |-> FALSE]

\* the props App passes to Toggle i (lines 178-223)
AppToggleProps(a, i) ==
  CASE i \in {1, 2} -> [on |-> Bool(a.bothOn), onChange |-> HandleToggleChange]
    [] i = 3 -> [on |-> Undefined, onChange |-> ConsoleInfo]
    [] i = 4 -> [on |-> Bool(a.bothOn), onChange |-> Undefined]
    [] i = 5 -> [on |-> a.testInitiallyControlled, onChange |-> ConsoleInfo]
    [] i = 6 -> [on |-> a.testInitiallyUncontrolled, onChange |-> ConsoleInfo]

\* handleToggleChange with the limit test left out
handleToggleChangeNoLimit(a, st, action) ==
  [a EXCEPT !.bothOn = st.on, !.timesClicked = @ + 1, !.returnedEarly = FALSE]

\* handleToggleChange (lines 162-168)
handleToggleChange(a, st, action) ==
  IF action.type = actionTypes.toggle /\ a.timesClicked > ClickLimit
    THEN [a EXCEPT !.returnedEarly = TRUE]
    ELSE [a EXCEPT !.bothOn = st.on, !.timesClicked = @ + 1, !.returnedEarly = FALSE]

\* handleResetClick (lines 170-173)
handleResetClick(a) == [a EXCEPT !.bothOn = FALSE, !.timesClicked = 0]

\* a click on the Switch of Toggle i: its onClick is the toggle of that
\* Toggle's useToggle (lines 150-154, 114-123); React re-renders App right
\* after the event, which reduces the dispatched action.
AppToggleClicked(a, i) ==
  LET p == AppToggleProps(a, i)
      st == a.toggles[i]
      action == [type |-> actionTypes.toggle]
      controlled == IsControlledValue(p.on)
      suggested == reducer([st EXCEPT !.on = EffectiveOn(p.on, st)], action).value
      dispatched == IF ~controlled
                      THEN [a EXCEPT !.toggles[i] = reducer(st, action).value]
                      ELSE a
      notified == IF p.onChange = HandleToggleChange
                    THEN handleToggleChange(dispatched, suggested, action)
                    ELSE dispatched
  IN  notified

\* values of the variables that a specification does not use
NoTwin == [renders |-> 0]
NoClick == [n |-> 0]
NoGot == [n |-> 0]

(***************************************************************************)
(* Construction: the first evaluation of useToggle and its commit.         *)
(***************************************************************************)
Constructed ==
  /\ \E env \in NodeEnvValues : isDevMode = (env # "production")
  /\ props \in PropsValues
  /\ initialState = [on |-> DefaultInitialOn(props.initialOn)]
  /\ state = initialState
  /\ queue = <<>>
  /\ wasControlled = IsControlledValue(props.on)
  /\ onIsControlled = IsControlledValue(props.on)
  /\ on = EffectiveOn(props.on, state)
  /\ warnings = ConsistencyChecks(isDevMode, TRUE, props, props, wasControlled)
  /\ thrown = ""
  /\ callLog = <<>>
  /\ renders = 0
  /\ everControlled = IsControlledValue(props.on)
  /\ everUncontrolled = ~IsControlledValue(props.on)
  /\ everOnChange = Truthy(props.onChange)

Init ==
  /\ Constructed
  /\ rstate = [on |-> FALSE]
  /\ rlog = <<>>
  /\ app = AppInitial
  /\ twin = NoTwin
  /\ lastClick = NoClick
  /\ got = NoGot

(***************************************************************************)
(* A later evaluation of useToggle with the options p (lines 56-148) and   *)
(* its commit.                                                             *)
(***************************************************************************)
Evaluate(p) ==
  LET r == ReduceQueue(state, queue)
  IN  /\ queue' = <<>>
      /\ IF r.threw
           THEN /\ thrown' = r.error
                /\ UNCHANGED <<props, initialState, state, wasControlled,
                               onIsControlled, on, warnings,
                               everControlled, everUncontrolled, everOnChange>>
           ELSE /\ thrown' = thrown
                /\ props' = p
                /\ initialState' = useRef(initialState, [on |-> DefaultInitialOn(p.initialOn)])
                /\ state' = r.value
                /\ wasControlled' = useRef(wasControlled, IsControlledValue(p.on))
                /\ onIsControlled' = IsControlledValue(p.on)
                /\ on' = EffectiveOn(p.on, r.value)
                /\ warnings' = warnings
                     \o ConsistencyChecks(isDevMode, FALSE, props, p, wasControlled')
                /\ everControlled' = (everControlled \/ IsControlledValue(p.on))
                /\ everUncontrolled' = (everUncontrolled \/ ~IsControlledValue(p.on))
                /\ everOnChange' = (everOnChange \/ Truthy(p.onChange))
      /\ UNCHANGED <<isDevMode, callLog>>

Render ==
  /\ renders < MaxRenders
  /\ thrown = ""
  /\ renders' = renders + 1
  /\ \E p \in PropsValues : Evaluate(p)
  /\ UNCHANGED <<rstate, rlog, app, twin, lastClick, got>>

(***************************************************************************)
(* dispatchWithOnChange (lines 114-119), called through the handlers of    *)
(* the latest evaluation.  Its effects are listed in the order in which    *)
(* the code produces them.                                                 *)
(***************************************************************************)
DispatchEvent(action) == [ev |-> "dispatch", action |-> action]
OnChangeEvent(fn, suggested, action) ==
  [ev |-> "onChange", fn |-> fn, suggested |-> suggested, action |-> action]
ThrowEvent(msg) == [ev |-> "throw", error |-> msg]
EventsOf(events, kind) == SelectSeq(events, LAMBDA e : e.ev = kind)

\* DispatchEffects without the test of onIsControlled
DispatchEffectsAlways(action) == <<DispatchEvent(action)>>

\* if (!onIsControlled) { dispatch(action) }   (lines 115-117)
DispatchEffects(action) ==
  IF ~onIsControlled THEN <<DispatchEvent(action)>> ELSE <<>>

\* SuggestedChanges computed from the raw internal state
SuggestedFromState(action) == reducer(state, action)

\* reducer({...state, on}, action)   (line 118)
SuggestedChanges(action) == reducer([state EXCEPT !.on = on], action)

\* onChange && onChange(reducer({...state, on}, action), action)   (line 118)
NotifyEffects(action) ==
  IF Truthy(props.onChange)
    THEN LET r == SuggestedChanges(action)
         IN  IF r.threw
               THEN <<ThrowEvent(r.error)>>
               ELSE <<OnChangeEvent(props.onChange, r.value, action)>>
    ELSE <<>>

\* GatewayEffects with the notification made before the dispatch
GatewayEffectsNotifyFirst(action) == NotifyEffects(action) \o DispatchEffects(action)

\* the body of dispatchWithOnChange, in statement order   (lines 115-118)
GatewayEffects(action) == DispatchEffects(action) \o NotifyEffects(action)

dispatchWithOnChange(action) ==
  LET events == GatewayEffects(action)
      dispatched == EventsOf(events, "dispatch")
      threw == EventsOf(events, "throw")
  IN  /\ queue' = queue \o [i \in 1..Len(dispatched) |-> dispatched[i].action]
      /\ thrown' = IF threw # <<>> THEN threw[1].error ELSE thrown
      /\ callLog' = Append(callLog,
                           [action |-> action, controlled |-> onIsControlled,
                            on |-> on, onChange |-> props.onChange,
                            render |-> renders, pending |-> Len(queue),
                            events |-> events])
      /\ UNCHANGED <<isDevMode, props, initialState, state, wasControlled,
                     onIsControlled, on, warnings, renders,
                     everControlled, everUncontrolled, everOnChange, rstate, rlog,
                     app, twin, got>>

\* const toggle = () => dispatchWithOnChange({type: actionTypes.toggle})   (line 123)
toggle ==
  /\ Len(callLog) < MaxCalls
  /\ thrown = ""
  /\ dispatchWithOnChange([type |-> actionTypes.toggle])
  /\ UNCHANGED lastClick

\* const reset = () => dispatchWithOnChange({type: actionTypes.reset, initialState})   (line 124)
reset ==
  /\ Len(callLog) < MaxCalls
  /\ thrown = ""
  /\ dispatchWithOnChange([type |-> actionTypes.reset, initialState |-> initialState])
  /\ UNCHANGED lastClick

(***************************************************************************)
(* Prop getters (lines 126-139).  A JS object is a function from its keys  *)
(* to JS values.  A function built by callAll is recorded by the calls it  *)
(* makes, in order, when invoked.                                          *)
(***************************************************************************)
EmptyObject == [k \in {} |-> Undefined]
Has(obj, k) == k \in DOMAIN obj
Get(obj, k) == IF Has(obj, k) THEN obj[k] ELSE Undefined
\* {...a, ...b}: the keys of both, b's values winning
Spread(a, b) ==
  [k \in DOMAIN a \cup DOMAIN b |-> IF k \in DOMAIN b THEN b[k] ELSE a[k]]
\* the `...props` left by destructuring `keys` out of obj
Rest(obj, keys) == [k \in DOMAIN obj \ keys |-> obj[k]]
\* `= {}`: the default applies to an argument that is undefined
DefaultObject(arg) == IF arg = Undefined THEN EmptyObject ELSE arg

\* the toggle and reset closures of the evaluation (lines 123-124)
ToggleFn == [t |-> "function", name |-> "toggle"]
ResetFn == [t |-> "function", name |-> "reset"]
InternalFns == {ToggleFn, ResetFn}

\* callAll calling its functions last to first
callAllReversed(fns) ==
  [t |-> "function",
   calls |-> SelectSeq([i \in 1..Len(fns) |-> fns[Len(fns) + 1 - i]],
                       LAMBDA fn : fn.t \notin {"undefined", "null"})]

\* callAll = (...fns) => (...args) => fns.forEach(fn => fn?.(...args))   (line 35)
callAll(fns) ==
  [t |-> "function",
   calls |-> SelectSeq(fns, LAMBDA fn : fn.t \notin {"undefined", "null"})]

\* getTogglerProps with the caller's properties spread first
getTogglerPropsSpreadFirst(arg) ==
  LET base == DefaultObject(arg)
      onClick == Get(base, "onClick")
      rest == Rest(base, {"onClick"})
  IN  Spread(rest,
             [k \in {"aria-pressed", "onClick"} |->
                IF k = "aria-pressed" THEN Bool(on) ELSE callAll(<<onClick, ToggleFn>>)])

\* getTogglerProps (lines 126-132)
getTogglerProps(arg) ==
  LET base == DefaultObject(arg)
      onClick == Get(base, "onClick")
      rest == Rest(base, {"onClick"})
  IN  Spread([k \in {"aria-pressed", "onClick"} |->
                IF k = "aria-pressed" THEN Bool(on) ELSE callAll(<<onClick, ToggleFn>>)],
             rest)

\* getResetterProps (lines 134-139)
getResetterProps(arg) ==
  LET base == DefaultObject(arg)
      onClick == Get(base, "onClick")
      rest == Rest(base, {"onClick"})
  IN  Spread([k \in {"onClick"} |-> callAll(<<onClick, ResetFn>>)], rest)

\* the objects a caller passes to a prop getter
OnClickValues == {Undefined, Null, Fn(2)}
BaseKeys == {"onClick", "aria-pressed", "on"}
BaseValues(k) ==
  CASE k = "onClick" -> OnClickValues
    [] k = "aria-pressed" -> {Bool(FALSE), Bool(TRUE)}
    [] k = "on" -> {Bool(TRUE)}
BaseObjects ==
  UNION {{b \in [K -> OnClickValues \cup {Bool(FALSE), Bool(TRUE)}] :
            \A k \in K : b[k] \in BaseValues(k)} : K \in SUBSET BaseKeys}
GetterArgs == {Undefined} \cup BaseObjects

\* the reset action built with a kind the reducer does not know
InternalActionWrongReset(fn) ==
  IF fn = ToggleFn
    THEN [type |-> actionTypes.toggle]
    ELSE [type |-> "Reset", initialState |-> initialState]

\* the action each closure hands to dispatchWithOnChange (lines 123-124)
InternalAction(fn) ==
  IF fn = ToggleFn
    THEN [type |-> actionTypes.toggle]
    ELSE [type |-> actionTypes.reset, initialState |-> initialState]

\* one activation of an onClick built by a getter: the calls it makes, in
\* order; a caller's handler is opaque and returns normally
Click(handler, arg, returned) ==
  LET calls == returned["onClick"].calls
      internal == SelectSeq(calls, LAMBDA fn : fn \in InternalFns)
  IN  /\ lastClick' = [n |-> Len(callLog) + 1, handler |-> handler,
                       onClick |-> Get(DefaultObject(arg), "onClick"),
                       invoked |-> calls]
      /\ IF internal # <<>>
           THEN dispatchWithOnChange(InternalAction(internal[1]))
           ELSE /\ callLog' = Append(callLog,
                                     [action |-> [type |-> "none"],
                                      controlled |-> onIsControlled, on |-> on,
                                      onChange |-> props.onChange, render |-> renders,
                                      pending |-> Len(queue), events |-> <<>>])
                /\ UNCHANGED <<isDevMode, props, initialState, state, queue,
                               wasControlled, onIsControlled, on, warnings, thrown,
                               renders, everControlled, everUncontrolled,
                               everOnChange, rstate, rlog, app, twin, got>>

\* the arguments of the getters whose onClick is then activated
ClickArgs == {arg \in GetterArgs : arg = Undefined \/ ~Has(arg, "aria-pressed")}

\* a click on an element given getTogglerProps(arg)
clickToggler ==
  /\ Len(callLog) < MaxCalls
  /\ thrown = ""
  /\ \E arg \in ClickArgs : Click("toggler", arg, getTogglerProps(arg))

\* a click on an element given getResetterProps(arg)
clickResetter ==
  /\ Len(callLog) < MaxCalls
  /\ thrown = ""
  /\ \E arg \in ClickArgs : Click("resetter", arg, getResetterProps(arg))

\* the evaluations made between clicks
MaxClickRenders == 1

clickRender ==
  /\ renders < MaxClickRenders
  /\ Render

ClickNext == clickRender \/ toggle \/ reset \/ clickToggler \/ clickResetter

ClickSpec == Init /\ [][ClickNext]_vars

\* a call of getTogglerProps during the latest evaluation
callGetTogglerProps ==
  /\ \E arg \in GetterArgs :
       got' = [arg |-> arg, returned |-> getTogglerProps(arg)]
  /\ UNCHANGED <<hookVars, rstate, rlog, app, twin, lastClick>>

PropsNext == Render \/ callGetTogglerProps

PropsSpec == Init /\ [][PropsNext]_vars

Next == Render \/ toggle \/ reset

Spec == Init /\ [][Next]_vars

(***************************************************************************)
(* toggleReducer taken alone (lines 42-54): a store holding a state, to    *)
(* which any action may be sent, of a supported kind or not.  A reduction  *)
(* that throws leaves the store as it was.                                 *)
(***************************************************************************)
StateValues == {[on |-> b] : b \in BOOLEAN}
UnknownTypes == {"set", "Toggle", "undefined"}
ActionValues ==
  {[type |-> actionTypes.toggle]}
  \cup {[type |-> actionTypes.reset, initialState |-> s0] : s0 \in StateValues}
  \cup {[type |-> k] : k \in UnknownTypes}

ReducerInit ==
  /\ Constructed
  /\ isDevMode
  /\ props = [initialOn |-> Undefined, on |-> Undefined, onChange |-> Undefined]
  /\ rstate \in StateValues
  /\ rlog = <<>>
  /\ app = AppInitial
  /\ twin = NoTwin
  /\ lastClick = NoClick
  /\ got = NoGot

Reduce ==
  /\ Len(rlog) < MaxReduceSteps
  /\ \E a \in ActionValues :
       LET r == toggleReducer(rstate, a)
       IN  /\ rlog' = Append(rlog, [state |-> rstate, action |-> a, result |-> r])
           /\ rstate' = IF r.threw THEN rstate ELSE r.value
  /\ UNCHANGED <<hookVars, app, twin, lastClick, got>>

ReducerNext == Reduce

ReducerSpec == ReducerInit /\ [][ReducerNext]_vars


(***************************************************************************)
(* The App harness as a state machine: the user clicks the Switch of a     *)
(* Toggle, the Reset button, the Unset button or the Set button.  A click  *)
(* is a discrete event: React runs the handler and re-renders App before   *)
(* the next event, so every handler sees the values of the latest render.  *)
(***************************************************************************)
AppInit ==
  /\ Constructed
  /\ isDevMode
  /\ props = [initialOn |-> Undefined, on |-> Undefined, onChange |-> Undefined]
  /\ rstate = [on |-> FALSE]
  /\ rlog = <<>>
  /\ app = AppInitial
  /\ twin = NoTwin
  /\ lastClick = NoClick
  /\ got = NoGot

AppFrame == UNCHANGED <<hookVars, rstate, rlog, twin, lastClick, got>>

ClickToggle ==
  /\ \E i \in ToggleIds :
       app' = [AppToggleClicked(app, i) EXCEPT !.lastEvent = "toggle" \o ToString(i)]
  /\ AppFrame

\* <button onClick={handleResetClick}>Reset</button> (line 189)
ClickReset ==
  /\ app' = [handleResetClick(app) EXCEPT !.lastEvent = "reset"]
  /\ AppFrame

\* <button onClick={() => setInitiallyControlled(null)}>Unset</button> (line 207)
ClickUnset ==
  /\ app' = [app EXCEPT !.testInitiallyControlled = Null, !.lastEvent = "unset"]
  /\ AppFrame

\* <button onClick={() => setInitiallyUncontrolled(true)}>Set</button> (line 217)
ClickSet ==
  /\ app' = [app EXCEPT !.testInitiallyUncontrolled = Bool(TRUE), !.lastEvent = "set"]
  /\ AppFrame

AppNext == ClickToggle \/ ClickReset \/ ClickUnset \/ ClickSet

AppSpec == AppInit /\ [][AppNext]_vars

(***************************************************************************)
(* Two controllers given the same inputs, one in development mode and one  *)
(* in production mode (line 8).  One of them is held in the variables, the *)
(* other one in twin.  The controller in the variables takes a step, the   *)
(* two are exchanged, and the other one is given the same input.           *)
(***************************************************************************)
\* the controller held in the variables
Running ==
  [isDevMode |-> isDevMode, props |-> props, initialState |-> initialState,
   state |-> state, queue |-> queue, wasControlled |-> wasControlled,
   onIsControlled |-> onIsControlled, on |-> on, warnings |-> warnings,
   thrown |-> thrown, callLog |-> callLog, renders |-> renders,
   everControlled |-> everControlled, everUncontrolled |-> everUncontrolled,
   everOnChange |-> everOnChange]

\* the first evaluation of useToggle with the options p, in the mode dev
Construction(dev, p) ==
  LET first == [on |-> DefaultInitialOn(p.initialOn)]
  IN  [isDevMode |-> dev, props |-> p, initialState |-> first,
       state |-> first, queue |-> <<>>, wasControlled |-> IsControlledValue(p.on),
       onIsControlled |-> IsControlledValue(p.on), on |-> EffectiveOn(p.on, first),
       warnings |-> ConsistencyChecks(dev, TRUE, p, p, IsControlledValue(p.on)),
       thrown |-> "", callLog |-> <<>>, renders |-> 0,
       everControlled |-> IsControlledValue(p.on),
       everUncontrolled |-> ~IsControlledValue(p.on),
       everOnChange |-> Truthy(p.onChange)]

\* evaluations and calls made so far by a controller
Steps(c) == c.renders + Len(c.callLog)
InStep == Steps(Running) = Steps(twin)
Ahead == Steps(Running) = Steps(twin) + 1
Behind == Steps(Running) + 1 = Steps(twin)

TwinInit ==
  /\ Constructed
  /\ twin = Construction(~isDevMode, props)
  /\ rstate = [on |-> FALSE]
  /\ rlog = <<>>
  /\ app = AppInitial
  /\ lastClick = NoClick
  /\ got = NoGot

\* the inputs given to each of the two controllers
MaxTwinSteps == 3

\* the running controller is given an input
Lead ==
  /\ InStep
  /\ Steps(Running) < MaxTwinSteps
  /\ Render \/ toggle \/ reset

\* the two controllers are exchanged
Switch ==
  /\ Ahead
  /\ twin' = Running
  /\ isDevMode' = twin.isDevMode
  /\ props' = twin.props
  /\ initialState' = twin.initialState
  /\ state' = twin.state
  /\ queue' = twin.queue
  /\ wasControlled' = twin.wasControlled
  /\ onIsControlled' = twin.onIsControlled
  /\ on' = twin.on
  /\ warnings' = twin.warnings
  /\ thrown' = twin.thrown
  /\ callLog' = twin.callLog
  /\ renders' = twin.renders
  /\ everControlled' = twin.everControlled
  /\ everUncontrolled' = twin.everUncontrolled
  /\ everOnChange' = twin.everOnChange
  /\ UNCHANGED <<rstate, rlog, app, lastClick, got>>

\* the running controller is given the input the other one was given last
Follow ==
  /\ Behind
  /\ IF twin.renders > renders
       THEN Render /\ props' = twin.props
       ELSE IF twin.callLog[Len(twin.callLog)].action.type = actionTypes.toggle
              THEN toggle
              ELSE reset

TwinNext == Lead \/ Switch \/ Follow

TwinSpec == TwinInit /\ [][TwinNext]_vars

(***************************************************************************)
(* Properties.                                                             *)
(***************************************************************************)
Present == {Bool(FALSE), Bool(TRUE)}
Count(seq, x) == Cardinality({i \in 1..Len(seq) : seq[i] = x})
LastCall == callLog[Len(callLog)]
ToggleAction == [type |-> "toggle"]
IsToggle(c) == c.action.type = "toggle"
IsReset(c) == c.action.type = "reset"

\* C1: if `on` is present on every evaluation from construction onward, the
\* exposed value equals the external value of the latest evaluation, and the
\* reducer state stays the captured initial state (nothing is even queued),
\* whatever toggle() and reset() calls were made.
C1_ControlledNeverMutates ==
  ~everUncontrolled =>
    /\ props.on \in Present
    /\ on = props.on.v
    /\ state = initialState
    /\ queue = <<>>

C1_Witness ==
  /\ ~everUncontrolled
  /\ renders = 2
  /\ Len(callLog) = 2
  /\ IsToggle(callLog[1]) /\ callLog[1].render = 0
  /\ IsReset(callLog[2]) /\ callLog[2].render = 1
  /\ on # state.on

\* C2: if `on` is absent on every evaluation, a toggle() made with nothing
\* pending flips the effective value once it has been reduced, and two
\* consecutive toggle() calls, the first made with nothing pending, bring the
\* effective value back to what it was before the first, with or without an
\* evaluation between them.
C2_ToggleFlips ==
  (~everControlled /\ queue = <<>> /\ Len(callLog) >= 1 /\ IsToggle(LastCall)) =>
    /\ LastCall.pending = 0 => on = ~LastCall.on
    /\ (/\ Len(callLog) >= 2
        /\ IsToggle(callLog[Len(callLog) - 1])
        /\ callLog[Len(callLog) - 1].pending = 0)
       => on = callLog[Len(callLog) - 1].on

C2_Witness ==
  /\ ~everControlled
  /\ Len(callLog) = 2
  /\ IsToggle(callLog[1]) /\ IsToggle(callLog[2])
  /\ callLog[1].render = 0 /\ callLog[2].render = 0
  /\ queue = <<>>
  /\ renders = 1
  /\ on = callLog[1].on

\* C3: in both modes, a call made while an onChange handler is registered
\* invokes that handler exactly once, with the reducer's result for the state
\* whose `on` is the effective value and with the action; a controlled call
\* dispatches nothing, so toggle() with external value false notifies
\* ({on: true}, {type: toggle}) and leaves the internal state alone.
C3_NotifiesSuggested ==
  \A i \in 1..Len(callLog) :
    LET c == callLog[i]
        notes == EventsOf(c.events, "onChange")
    IN  /\ c.onChange # Undefined =>
             /\ Len(notes) = 1
             /\ notes[1].fn = c.onChange
             /\ notes[1].action = c.action
             /\ notes[1].suggested = toggleReducer([on |-> c.on], c.action).value
             /\ (c.action = ToggleAction /\ c.on = FALSE) =>
                  notes[1].suggested = [on |-> TRUE]
        /\ c.controlled => EventsOf(c.events, "dispatch") = <<>>

C3_Witness ==
  /\ Len(callLog) = 1
  /\ callLog[1].controlled
  /\ callLog[1].on = FALSE
  /\ state.on = TRUE
  /\ callLog[1].events =
       <<[ev |-> "onChange", fn |-> Fn(1), suggested |-> [on |-> TRUE],
          action |-> ToggleAction]>>
  /\ queue = <<>>

\* C4: a call of dispatchWithOnChange dispatches at most one action to the
\* reducer store (the mutation, which React reduces at the next evaluation)
\* and invokes onChange at most once; when it does both, the dispatch comes
\* first.  The store receives exactly what the call dispatched.
C4_AtMostOnceInOrder ==
  /\ [](\A i \in 1..Len(callLog) :
          LET c == callLog[i]
              d == EventsOf(c.events, "dispatch")
              n == EventsOf(c.events, "onChange")
          IN  /\ Len(d) <= 1
              /\ Len(n) <= 1
              /\ (Len(d) = 1 /\ Len(n) = 1) => c.events = <<d[1], n[1]>>)
  /\ [][callLog' # callLog =>
          LET d == EventsOf(callLog'[Len(callLog')].events, "dispatch")
          IN  /\ state' = state
              /\ queue' = queue \o [k \in 1..Len(d) |-> d[k].action]]_vars

C4_Witness ==
  /\ Len(callLog) = 1
  /\ Len(callLog[1].events) = 2
  /\ callLog[1].events[1].ev = "dispatch"
  /\ callLog[1].events[2].ev = "onChange"
  /\ renders = 1
  /\ state # initialState

\* C5: a controller constructed uncontrolled with initial value false and no
\* onChange, and kept so: toggle() makes the effective value true, a
\* following reset() makes it false, no call notifies, and neither
\* consistency check ever writes a warning.
C5_UncontrolledScenario ==
  (~everControlled /\ ~everOnChange /\ initialState.on = FALSE) =>
    /\ warnings = <<>>
    /\ \A i \in 1..Len(callLog) : EventsOf(callLog[i].events, "onChange") = <<>>
    /\ (queue = <<>> /\ Len(callLog) = 1 /\ IsToggle(callLog[1])) => on = TRUE
    /\ (queue = <<>> /\ Len(callLog) = 2 /\ IsToggle(callLog[1]) /\ IsReset(callLog[2]))
         => on = FALSE

C5_Witness ==
  /\ isDevMode
  /\ ~everControlled /\ ~everOnChange /\ initialState.on = FALSE
  /\ renders = 2
  /\ Len(callLog) = 2
  /\ IsToggle(callLog[1]) /\ callLog[1].render = 0
  /\ IsReset(callLog[2]) /\ callLog[2].render = 1 /\ callLog[2].on = TRUE
  /\ queue = <<>>
  /\ on = FALSE

\* C6: in development mode, a controller constructed controlled without
\* onChange, and kept so, has written the missing-handler warning exactly once
\* (at construction) however many evaluations followed and whatever external
\* values they supplied; its calls dispatch and notify nothing, the internal
\* state is the initial one and the effective value is the external value.
C6_MissingHandlerOnce ==
  (isDevMode /\ ~everUncontrolled /\ ~everOnChange) =>
    /\ warnings = <<MissingHandlerMsg>>
    /\ \A i \in 1..Len(callLog) : callLog[i].events = <<>>
    /\ state = initialState
    /\ queue = <<>>
    /\ on = props.on.v

C6_Witness ==
  /\ isDevMode /\ ~everUncontrolled /\ ~everOnChange
  /\ renders = 2
  /\ Len(callLog) = 1
  /\ IsToggle(callLog[1]) /\ callLog[1].render = 0 /\ callLog[1].on = FALSE
  /\ props.on = Bool(TRUE)
  /\ Count(warnings, MissingHandlerMsg) = 1

FlipMsgs == {ControlledToUncontrolledMsg, UncontrolledToControlledMsg}
FlipsIn(seq) == SelectSeq(seq, LAMBDA m : m \in FlipMsgs)
NewWarnings == SubSeq(warnings', Len(warnings) + 1, Len(warnings'))

\* C7: the constructed mode is kept for good in wasControlled; in development
\* mode an evaluation writes a mode-flip warning exactly when its mode differs
\* from the constructed mode and the previous evaluation's did not, and then
\* the one warning of that direction; construction writes none, and neither
\* does a call of toggle() or reset().
C7_ModeFlipOnce ==
  /\ [](renders = 0 =>
          /\ wasControlled = (props.on \in Present)
          /\ FlipsIn(warnings) = <<>>)
  /\ [][/\ wasControlled' = wasControlled
        /\ Len(warnings') >= Len(warnings)
        /\ SubSeq(warnings', 1, Len(warnings)) = warnings
        /\ renders' = renders => warnings' = warnings
        /\ (isDevMode /\ renders' # renders) =>
             FlipsIn(NewWarnings) =
               IF /\ (props'.on \in Present) # wasControlled
                  /\ (props.on \in Present) = wasControlled
                 THEN IF wasControlled
                        THEN <<ControlledToUncontrolledMsg>>
                        ELSE <<UncontrolledToControlledMsg>>
                 ELSE <<>>]_vars

C7_Witness ==
  /\ isDevMode
  /\ ~wasControlled
  /\ renders = 2
  /\ Len(callLog) = 1 /\ callLog[1].render = 1 /\ callLog[1].controlled
  /\ props.on \in Present
  /\ FlipsIn(warnings) = <<UncontrolledToControlledMsg>>

\* C8: the initial state is the initialOn of construction (false when not
\* given) and never changes afterwards, whatever initialOn later evaluations
\* supply; every reset action carries it, and for a controller that was never
\* controlled a reset() that has been reduced last leaves the internal state
\* and the effective value equal to it.
C8_InitialStateFrozen ==
  /\ [](renders = 0 => initialState = [on |-> (props.initialOn = Bool(TRUE))])
  /\ [][initialState' = initialState]_vars
  /\ [](\A i \in 1..Len(callLog) :
          IsReset(callLog[i]) => callLog[i].action.initialState = initialState)
  /\ []((~everControlled /\ queue = <<>> /\ Len(callLog) >= 1 /\ IsReset(LastCall)) =>
          (state = initialState /\ on = initialState.on))

C8_Witness ==
  /\ ~everControlled
  /\ renders = 2
  /\ Len(callLog) = 2
  /\ IsToggle(callLog[1]) /\ callLog[1].render = 0
  /\ IsReset(callLog[2]) /\ callLog[2].render = 1 /\ callLog[2].on = TRUE
  /\ queue = <<>>
  /\ props.initialOn = Bool(TRUE)
  /\ initialState = [on |-> FALSE]
  /\ state = initialState

\* C9: at every evaluation the mode is controlled exactly when `on` is
\* neither null nor undefined (an explicit false is controlled), and the
\* effective value is that evaluation's external value when controlled and
\* the internal state.on otherwise.
C9_ModeAndEffectiveValue ==
  /\ onIsControlled = (props.on \in Present)
  /\ on = IF props.on \in Present THEN props.on.v ELSE state.on

C9_Witness ==
  /\ renders = 2
  /\ Len(callLog) = 1
  /\ callLog[1].render = 1 /\ callLog[1].controlled /\ callLog[1].on = TRUE
  /\ props.on = Bool(FALSE)
  /\ onIsControlled
  /\ state.on = TRUE
  /\ on = FALSE

\* C10: toggleReducer applied to any state and an action whose type is
\* neither toggle nor reset throws "Unsupported type: <type>" and returns no
\* state: the store it was sent to keeps the state it had.
C10_UnsupportedActionThrows ==
  \A i \in 1..Len(rlog) :
    LET e == rlog[i]
    IN  e.action.type \notin {"toggle", "reset"} =>
          /\ e.result = [threw |-> TRUE, error |-> "Unsupported type: " \o e.action.type]
          /\ i < Len(rlog) => rlog[i + 1].state = e.state
          /\ i = Len(rlog) => rstate = e.state

C10_Witness ==
  /\ Len(rlog) = 3
  /\ rlog[1].action = ToggleAction
  /\ rlog[2].action = [type |-> "undefined"]
  /\ rlog[2].result.threw
  /\ rlog[2].result.error = "Unsupported type: undefined"
  /\ rlog[3].state = rlog[2].state
  /\ rlog[3].state = [on |-> TRUE]


\* C11: for every state s, every initial state s0 and every valid action a,
\* sending a to a store that has just reduced a reset carrying s0 gives what a
\* gives from s0: {on: !s0.on} for toggle, the carried state for reset; nothing
\* of s remains.
C11_ResetReplacesState ==
  \A i \in 1..(Len(rlog) - 1) :
    LET e == rlog[i]
        f == rlog[i + 1]
    IN  (IsReset(e) /\ f.action.type \in {"toggle", "reset"}) =>
          /\ e.result = [threw |-> FALSE, value |-> e.action.initialState]
          /\ f.state = e.action.initialState
          /\ f.result =
               IF IsToggle(f)
                 THEN [threw |-> FALSE, value |-> [on |-> ~e.action.initialState.on]]
                 ELSE [threw |-> FALSE, value |-> f.action.initialState]

C11_Witness ==
  /\ Len(rlog) = 2
  /\ rlog[1].state = [on |-> TRUE]
  /\ rlog[1].action = [type |-> "reset", initialState |-> [on |-> FALSE]]
  /\ rlog[2].action = ToggleAction
  /\ rlog[2].result = [threw |-> FALSE, value |-> [on |-> TRUE]]
  /\ rstate = [on |-> TRUE]


MissingIn(seq) == SelectSeq(seq, LAMBDA m : m = MissingHandlerMsg)
ModeChanged == (props'.on \in Present) # (props.on \in Present)

\* C15 (as claimed): in development mode an evaluation re-runs the
\* missing-handler check exactly when the mode, the external value or onChange
\* differs from the previous evaluation, so that a controlled controller
\* without onChange whose external value goes from false to true is warned
\* again.
C15_ValueChangeRefires ==
  [][(isDevMode /\ renders' # renders) =>
       MissingIn(NewWarnings) =
         IF /\ (ModeChanged \/ props'.on # props.on \/ props'.onChange # props.onChange)
            /\ props'.on \in Present
            /\ props'.onChange = Undefined
           THEN <<MissingHandlerMsg>>
           ELSE <<>>]_vars

\* C15 (amended): in development mode an evaluation re-runs the
\* missing-handler check exactly when the mode or onChange differs from the
\* previous evaluation, and the mode-flip check only when the mode differs; a
\* change of the external value from one present value to another re-runs
\* neither and writes no warning.
C15_ChecksFollowModeAndOnChange ==
  [][(isDevMode /\ renders' # renders) =>
       /\ MissingIn(NewWarnings) =
            IF /\ (ModeChanged \/ props'.onChange # props.onChange)
               /\ props'.on \in Present
               /\ props'.onChange = Undefined
              THEN <<MissingHandlerMsg>>
              ELSE <<>>
       /\ FlipsIn(NewWarnings) # <<>> => ModeChanged
       /\ (~ModeChanged /\ props'.onChange = props.onChange) => warnings' = warnings]_vars

C15_Witness ==
  /\ isDevMode
  /\ ~everUncontrolled /\ ~everOnChange
  /\ renders = 1
  /\ Len(callLog) = 1 /\ callLog[1].render = 0 /\ callLog[1].on = FALSE
  /\ props.on = Bool(TRUE)
  /\ warnings = <<MissingHandlerMsg>>

\* C16: for a call made while uncontrolled with onChange registered, the
\* suggested state passed to onChange is the internal state once the call's
\* action has been reduced (checked for the latest call, when nothing is
\* pending).
C16_SuggestedMatchesApplied ==
  (Len(callLog) >= 1 /\ queue = <<>>) =>
    LET n == EventsOf(LastCall.events, "onChange")
    IN  (~LastCall.controlled /\ Len(n) = 1) => n[1].suggested = state

\* C17: when a controller that has been controlled at every evaluation since
\* construction is evaluated without `on`, the effective value of that
\* evaluation is the captured initial value, whatever the external values
\* were and whatever calls were made.
C17_FirstUncontrolledIsInitial ==
  [][(~everUncontrolled /\ renders' # renders /\ props'.on \notin Present) =>
       (on' = initialState.on /\ state' = initialState)]_vars

C17_Witness ==
  /\ wasControlled
  /\ renders = 1
  /\ ~onIsControlled
  /\ Len(callLog) = 2
  /\ IsToggle(callLog[1]) /\ callLog[1].controlled /\ callLog[1].on = TRUE
  /\ IsToggle(callLog[2]) /\ callLog[2].controlled
  /\ initialState.on = FALSE
  /\ on = FALSE


\* C19: in App the click count never exceeds 5; once timesClicked is greater
\* than 4 a click on Toggle 1 or Toggle 2 (both controlled by bothOn, both
\* notifying handleToggleChange) changes neither bothOn nor timesClicked; and
\* from there only the Reset button changes them, to false and 0.
C19_ClickLimit ==
  /\ [](app.timesClicked <= 5)
  /\ [][(app.timesClicked > 4 /\ app'.lastEvent \in {"toggle1", "toggle2"}) =>
          (/\ app'.bothOn = app.bothOn
           /\ app'.timesClicked = app.timesClicked
           /\ app'.returnedEarly)]_vars
  /\ [][(app.timesClicked > 4
          /\ (app'.bothOn # app.bothOn \/ app'.timesClicked # app.timesClicked)) =>
          (/\ app'.lastEvent = "reset"
           /\ app'.bothOn = FALSE
           /\ app'.timesClicked = 0)]_vars
  /\ [][app'.lastEvent \in {"toggle1", "toggle2"} =>
          (/\ app.toggles[1] = [on |-> FALSE] /\ app.toggles[2] = [on |-> FALSE]
           /\ app'.toggles = app.toggles
           /\ app.timesClicked <= 4 =>
                (app'.bothOn = ~app.bothOn /\ app'.timesClicked = app.timesClicked + 1))]_vars

C19_Witness ==
  /\ app.timesClicked = 5
  /\ app.bothOn = TRUE
  /\ app.lastEvent = "toggle2"
  /\ app.returnedEarly


\* C13: every activation of the onClick returned by getTogglerProps (resp.
\* getResetterProps) calls the caller's onClick first, when one was given, and
\* then the internal toggle (resp. reset), each exactly once: the activation
\* makes exactly one call of dispatchWithOnChange, with the toggle (resp.
\* reset) action; without a caller onClick only the internal action runs.
C13_ClickCallsInOrder ==
  [][lastClick' # lastClick =>
       LET internal == IF lastClick'.handler = "toggler" THEN ToggleFn ELSE ResetFn
           kind == IF lastClick'.handler = "toggler" THEN actionTypes.toggle
                   ELSE actionTypes.reset
       IN  /\ lastClick'.invoked =
                IF lastClick'.onClick.t = "function"
                  THEN <<lastClick'.onClick, internal>>
                  ELSE <<internal>>
           /\ Len(callLog') = Len(callLog) + 1
           /\ lastClick'.n = Len(callLog')
           /\ callLog'[Len(callLog')].action.type = kind]_vars

C13_Witness ==
  /\ lastClick # NoClick
  /\ lastClick.handler = "resetter"
  /\ lastClick.onClick = Fn(2)
  /\ lastClick.n = 2
  /\ callLog[1].action.type = actionTypes.toggle
  /\ callLog[2].action.type = actionTypes.reset
  /\ lastClick.invoked = <<Fn(2), ResetFn>>

\* C14 as stated: whatever base properties the caller supplies, the result of
\* getTogglerProps keeps every base property other than onClick and its
\* 'aria-pressed' equals the effective value of the evaluation.
C14_PressedIsEffectiveValue ==
  [][got' # got =>
       LET base == DefaultObject(got'.arg)
       IN  /\ \A k \in DOMAIN base \ {"onClick"} :
                Has(got'.returned, k) /\ got'.returned[k] = base[k]
           /\ got'.returned["aria-pressed"] = Bool(on)]_vars

\* C14 amended: the result of getTogglerProps keeps every base property other
\* than onClick, 'aria-pressed' included; its 'aria-pressed' equals the
\* effective value of the evaluation when the base properties carry no
\* 'aria-pressed' of their own, and its keys are those of the base together
\* with 'aria-pressed' and onClick.
C14_PassthroughWins ==
  [][got' # got =>
       LET base == DefaultObject(got'.arg)
       IN  /\ \A k \in DOMAIN base \ {"onClick"} :
                Has(got'.returned, k) /\ got'.returned[k] = base[k]
           /\ ~Has(base, "aria-pressed") => got'.returned["aria-pressed"] = Bool(on)
           /\ DOMAIN got'.returned = DOMAIN base \cup {"aria-pressed", "onClick"}]_vars

C14_Witness ==
  /\ got # NoGot
  /\ renders > 0
  /\ got.arg # Undefined
  /\ Has(got.arg, "aria-pressed")
  /\ Has(got.arg, "on")
  /\ got.arg["aria-pressed"] # Bool(on)
  /\ got.returned["aria-pressed"] = got.arg["aria-pressed"]

\* C18: with the default reducer nothing reaches the unsupported-action error:
\* no call and no evaluation throws, and every action built by toggle(),
\* reset() or a getter's onClick, queued or notified, has kind toggle or reset.
C18_NoUnsupportedAction ==
  /\ thrown = ""
  /\ \A i \in 1..Len(queue) : queue[i].type \in {actionTypes.toggle, actionTypes.reset}
  /\ \A i \in 1..Len(callLog) :
       /\ callLog[i].action.type \in {actionTypes.toggle, actionTypes.reset}
       /\ EventsOf(callLog[i].events, "throw") = <<>>

C18_Witness ==
  /\ Len(callLog) = 2
  /\ lastClick # NoClick
  /\ lastClick.n = 1
  /\ lastClick.handler = "resetter"
  /\ callLog[2].action.type = actionTypes.toggle
  /\ props.onChange # Undefined
  /\ renders > callLog[2].render
  /\ queue = <<>>


\* C12: a development-mode run and a production-mode run given the same
\* evaluations and the same toggle()/reset() calls agree, after every input,
\* on the internal state, the pending dispatches, the mode, the effective
\* value and the sequence of onChange notifications; the production run emits
\* no warning and neither run throws.
Notifications(log) == [i \in 1..Len(log) |-> EventsOf(log[i].events, "onChange")]
C12_ChecksOnlyWarn ==
  /\ (IF isDevMode THEN twin.warnings ELSE warnings) = <<>>
  /\ isDevMode # twin.isDevMode
  /\ InStep =>
       /\ state = twin.state
       /\ queue = twin.queue
       /\ initialState = twin.initialState
       /\ onIsControlled = twin.onIsControlled
       /\ on = twin.on
       /\ thrown = twin.thrown
       /\ Notifications(callLog) = Notifications(twin.callLog)
       /\ callLog = twin.callLog

C12_Witness ==
  /\ InStep
  /\ renders >= 1
  /\ Len(callLog) = 2
  /\ callLog[1].render < callLog[2].render
  /\ Len(IF isDevMode THEN warnings ELSE twin.warnings) >= 2
  /\ \E i \in 1..Len(callLog) : Notifications(callLog)[i] # <<>>
  /\ state # initialState

=============================================================================
